---- MODULE Spec2Model ----
(***************************************************************************)
(* The typed object model of ruru: the `Object` trait                     *)
(* (src/class/traits/object.rs) over the host runtime it delegates to.    *)
(*                                                                         *)
(* A Value (handle) is a natural number.  Fixnums are immediates          *)
(* (2n+1), nil is the immediate Qnil, every other value lives on the      *)
(* runtime's heap at an even address.  A wrapper is a record               *)
(* [ty, value]: the static wrapper type and the one handle it holds.      *)
(* The runtime state (heap, singleton classes, method tables, instance    *)
(* variables) is the record `vm`; the trait's methods are operators that  *)
(* take it and return it, and the actions apply them.                     *)
(***************************************************************************)
EXTENDS Integers, Sequences, FiniteSets, TLC

VARIABLES vm, last, fuel, incs, held, wrote

vars == <<vm, last, fuel, incs, held, wrote>>

(* ------------------------------------------------------------------ *)
(* Bounds of the model                                                 *)
(* ------------------------------------------------------------------ *)

\* largest n for which Fixnum::new(n) is constructed or stored
MaxFixnum == 2
\* calls per run that change the runtime (define methods, create singleton
\* classes or instances, set instance variables): with the operations of the
\* trait at hand, ...
MaxOps == 2
\* ... with the defining operations and dispatch, ...
MaxDefs == 2
\* ... and in the life of a Counter
MaxCounterOps == 3
\* instance variable writes in a run of the instance variable specification
MaxSets == 3
\* ... and around the callbacks that call back into the runtime
MaxReentryOps == 2

(* ------------------------------------------------------------------ *)
(* Handles                                                             *)
(* ------------------------------------------------------------------ *)

NoHandle == 0 - 1

\* Fixnum::new(n): the immediate encoding of the integer n
int_to_num(n) == 2 * n + 1

IsFixnum(h) == h >= 0 /\ h % 2 = 1

\* Fixnum::to_i64 on a fixnum handle
num_to_int(h) == (h - 1) \div 2

Qnil == 2 * 4

\* the i-th address of the runtime's heap
HeapAddr(i) == 2 * (i + 5)

ClassClass == HeapAddr(0)
FixnumClass == HeapAddr(1)
NilClassClass == HeapAddr(2)
StringClass == HeapAddr(3)
ArrayClass == HeapAddr(4)
CounterClass == HeapAddr(5)
string1 == HeapAddr(6)
array1 == HeapAddr(7)
array2 == HeapAddr(8)

BootHandles ==
  {ClassClass, FixnumClass, NilClassClass, StringClass, ArrayClass, CounterClass,
   string1, array1, array2}

\* the heap after VM::init(), class!(Counter) / Class::new("Counter", None),
\* RString::new("string"), and two Array::new()
BootHeap ==
  [h \in BootHandles |->
     IF h = string1 THEN [klass |-> StringClass, ty |-> "RString"]
     ELSE IF h \in {array1, array2} THEN [klass |-> ArrayClass, ty |-> "Array"]
     ELSE [klass |-> ClassClass, ty |-> "Class"]]

(* ------------------------------------------------------------------ *)
(* Names and callbacks                                                 *)
(* ------------------------------------------------------------------ *)

\* names native code registers one at a time
DefNames == {"m", "state"}
\* names respond_to and send are asked about
MethodNames == {"m", "state", "increment!", "modified", "push", "other"}
IvarNames == {"@state", "@modified"}

\* the callbacks native code registers one at a time (they return Fixnum 1 and 2)
DefCallbacks == {"f", "g"}

NoCallback == "none"

(* ------------------------------------------------------------------ *)
(* Wrappers                                                            *)
(* ------------------------------------------------------------------ *)

Wrap(T, h) == [ty |-> T, value |-> h]

NoWrapper == Wrap("none", NoHandle)

\* From<Value> for AnyObject
AnyObject_from(h) == Wrap("AnyObject", h)

\* From<Value> for Class
Class_from(h) == Wrap("Class", h)

\* Object::value
value(w) == w.value

\* the wrapper types conversions are asked for
VerifiedTypes == {"Fixnum", "RString", "Array"}
WrapperTypes == VerifiedTypes \cup {"AnyObject"}

(* ------------------------------------------------------------------ *)
(* The host runtime behind binding::class and binding::util            *)
(* ------------------------------------------------------------------ *)

EmptyFn == [x \in {} |-> NoHandle]

Put(f, k, v) == [x \in DOMAIN f \cup {k} |-> IF x = k THEN v ELSE f[x]]

\* what an operation hands back: the runtime after it, how it ended
\* ("ok", "err": a typed error value, "raised": a host-level exception), the
\* wrapper it returned, the boolean it returned, and its message or kind
Out(H, status, res, flag, text) ==
  [vm |-> H, status |-> status, res |-> res, flag |-> flag, text |-> text]

Ok(H, res) == Out(H, "ok", res, FALSE, "")
OkFlag(H, flag) == Out(H, "ok", NoWrapper, flag, "")
Raised(H, text) == Out(H, "raised", NoWrapper, FALSE, text)

\* binding::class::object_class: the class of a value, singleton classes skipped
class_object_class(H, h) ==
  IF IsFixnum(h) THEN FixnumClass
  ELSE IF h = Qnil THEN NilClassClass
  ELSE H.heap[h].klass

\* Value::ty: the coarse kind of a value
Value_ty(H, h) ==
  IF IsFixnum(h) THEN "Fixnum"
  ELSE IF h = Qnil THEN "Nil"
  ELSE H.heap[h].ty

\* Value::is_nil
Value_is_nil(h) == h = Qnil

\* binding::class::singleton_class: the per-object class, created on first use
class_singleton_class(H, h) ==
  IF h \in DOMAIN H.single
  THEN [vm |-> H, value |-> H.single[h]]
  ELSE LET s == HeapAddr(Cardinality(DOMAIN H.heap))
       IN [vm |-> [H EXCEPT !.heap = Put(H.heap, s, [klass |-> ClassClass, ty |-> "Class"]),
                            !.single = Put(H.single, h, s)],
           value |-> s]

\* binding::class::define_method: an instance method of the class `klass`;
\* the runtime raises when `klass` is not a class
class_define_method(H, klass, name, callback) ==
  IF Value_ty(H, klass) = "Class"
  THEN [vm |-> [H EXCEPT !.methods = Put(H.methods, <<klass, name>>, callback)],
        raised |-> FALSE]
  ELSE [vm |-> H, raised |-> TRUE]

\* binding::class::define_singleton_method: a method of the singleton class of
\* `h`; the runtime raises for an immediate number, which has none to define on
class_define_singleton_method(H, h, name, callback) ==
  IF IsFixnum(h)
  THEN [vm |-> H, raised |-> TRUE]
  ELSE LET s == class_singleton_class(H, h)
       IN class_define_method(s.vm, s.value, name, callback)

\* the runtime's method resolution for a receiver: its singleton class first,
\* then its class; NoCallback when neither has the name
method_entry(H, h, name) ==
  IF h \in DOMAIN H.single /\ <<H.single[h], name>> \in DOMAIN H.methods
  THEN H.methods[<<H.single[h], name>>]
  ELSE IF <<class_object_class(H, h), name>> \in DOMAIN H.methods
  THEN H.methods[<<class_object_class(H, h), name>>]
  ELSE NoCallback

\* binding::class::respond_to
class_respond_to(H, h, name) == method_entry(H, h, name) # NoCallback

\* binding::class::instance_variable_get: nil for a slot never set
class_instance_variable_get(H, h, variable) ==
  IF <<h, variable>> \in DOMAIN H.ivars THEN H.ivars[<<h, variable>>] ELSE Qnil

\* binding::class::instance_variable_set: stores and returns the value
class_instance_variable_set(H, h, variable, v) ==
  [vm |-> [H EXCEPT !.ivars = Put(H.ivars, <<h, variable>>, v)], value |-> v]

(* ------------------------------------------------------------------ *)
(* VerifiedObject                                                      *)
(* ------------------------------------------------------------------ *)

\* the ValueType a verified wrapper type stands for
ExpectedTy(T) ==
  CASE T = "Fixnum" -> "Fixnum"
    [] T = "RString" -> "RString"
    [] T = "Array" -> "Array"
    [] OTHER -> "none"

\* VerifiedObject::is_correct_type: decided by the runtime kind of the value
is_correct_type(T, H, object) == Value_ty(H, value(object)) = ExpectedTy(T)

\* VerifiedObject::error_message
error_message(T) ==
  CASE T = "Fixnum" -> "Error converting to Fixnum"
    [] T = "RString" -> "Error converting to String"
    [] T = "Array" -> "Error converting to Array"
    [] OTHER -> "Error converting"

(* ------------------------------------------------------------------ *)
(* The Object trait: queries and conversions                           *)
(* ------------------------------------------------------------------ *)

\* Object::class
class(H, self) == Ok(H, Class_from(class_object_class(H, value(self))))

\* singleton_class answering with the class of the value
singleton_class_as_class(H, self) == Ok(H, Class_from(class_object_class(H, value(self))))

\* Object::singleton_class
singleton_class(H, self) ==
  LET r == class_singleton_class(H, value(self))
  IN Ok(r.vm, Class_from(r.value))

\* respond_to asking the class of the value only
respond_to_class_only(H, self, method) ==
  OkFlag(H, <<class_object_class(H, value(self)), method>> \in DOMAIN H.methods)

\* Object::respond_to
respond_to(H, self, method) == OkFlag(H, class_respond_to(H, value(self), method))

\* is_nil trusting the static type of the wrapper
is_nil_static(H, self) == OkFlag(H, self.ty = "NilClass")

\* Object::is_nil
is_nil(H, self) == OkFlag(H, Value_is_nil(value(self)))

\* to_any_object wrapping the class of the value in place of the value
to_any_object_of_class(H, self) == Ok(H, AnyObject_from(class_object_class(H, value(self))))

\* Object::to_any_object
to_any_object(H, self) == Ok(H, AnyObject_from(value(self)))

\* instance_variable_get reading the slot of the class of the value
instance_variable_get_of_class(H, self, variable) ==
  Ok(H, AnyObject_from(class_instance_variable_get(H, class_object_class(H, value(self)),
                                                   variable)))

\* Object::instance_variable_get
instance_variable_get(H, self, variable) ==
  Ok(H, AnyObject_from(class_instance_variable_get(H, value(self), variable)))

\* Object::instance_variable_set
instance_variable_set(H, self, variable, v) ==
  LET r == class_instance_variable_set(H, value(self), variable, value(v))
  IN Ok(r.vm, AnyObject_from(r.value))

\* to handing back the receiver under the type it already had
to_keeping_type(self, T) == Wrap(self.ty, value(self))

\* Object::to: T::from(self.value()), nothing verified
to(self, T) == Wrap(T, value(self))

\* try_convert_to trusting the static type of the receiver
try_convert_to_static(H, self, T) ==
  IF self.ty = T \/ (self.ty = "AnyObject" /\ is_correct_type(T, H, self))
  THEN Ok(H, to(self, T))
  ELSE Out(H, "TypeError", NoWrapper, FALSE, error_message(T))

\* try_convert_to reporting the failure with the message of the receiver's type
try_convert_to_wrong_message(H, self, T) ==
  IF is_correct_type(T, H, self)
  THEN Ok(H, to(self, T))
  ELSE Out(H, "TypeError", NoWrapper, FALSE, error_message(self.ty))

\* Object::try_convert_to
try_convert_to(H, self, T) ==
  IF is_correct_type(T, H, self)
  THEN Ok(H, to(self, T))
  ELSE Out(H, "TypeError", NoWrapper, FALSE, error_message(T))

\* Object::ty
ty(H, self) == Out(H, "ok", NoWrapper, FALSE, Value_ty(H, value(self)))

(* ------------------------------------------------------------------ *)
(* The Object trait: method definition                                 *)
(* ------------------------------------------------------------------ *)

\* define_method keeping the callback a name already has
define_method_first_wins(H, self, name, callback) ==
  LET r == class_define_method(H, value(self), name, callback)
  IN IF r.raised THEN Raised(r.vm, "define_method")
     ELSE IF <<value(self), name>> \in DOMAIN H.methods THEN Ok(H, NoWrapper)
     ELSE Ok(r.vm, NoWrapper)

\* define_method starting the method table of the runtime afresh
define_method_fresh_table(H, self, name, callback) ==
  LET r == class_define_method([H EXCEPT !.methods = EmptyFn], value(self), name, callback)
  IN IF r.raised THEN Raised(H, "define_method") ELSE Ok(r.vm, NoWrapper)

\* define_method registering on the class of the receiver
define_method_on_class_of(H, self, name, callback) ==
  LET r == class_define_method(H, class_object_class(H, value(self)), name, callback)
  IN IF r.raised THEN Raised(r.vm, "define_method") ELSE Ok(r.vm, NoWrapper)

\* Object::define_method
define_method(H, self, name, callback) ==
  LET r == class_define_method(H, value(self), name, callback)
  IN IF r.raised THEN Raised(r.vm, "define_method") ELSE Ok(r.vm, NoWrapper)

\* Object::define_singleton_method
define_singleton_method(H, self, name, callback) ==
  LET r == class_define_singleton_method(H, value(self), name, callback)
  IN IF r.raised THEN Raised(r.vm, "define_singleton_method") ELSE Ok(r.vm, NoWrapper)

\* Object::def
def(H, self, name, callback) == define_method(H, self, name, callback)

\* Object::def_self
def_self(H, self, name, callback) == define_singleton_method(H, self, name, callback)

\* Class::attr_reader: a reader method `name` for the instance variable @name
attr_reader(H, self, name) == define_method(H, self, name, "attr_reader")

DefStep(op, name, callback) == [op |-> op, name |-> name, callback |-> callback]

\* the closure of the Counter example
CounterBody ==
  << DefStep("def", "initialize", "counter_initialize"),
     DefStep("def", "increment!", "counter_increment"),
     DefStep("def", "state", "counter_state") >>

\* the closure of the singleton_class example
AttrBody == << DefStep("attr_reader", "modified", "attr_reader") >>

\* the closure of the define_singleton_method example
SingletonBody == << DefStep("define_singleton_method", "m", "f") >>

\* the closure of the class definition example, without its nested class
HelloBody ==
  << DefStep("attr_reader", "modified", "attr_reader"),
     DefStep("def_self", "m", "f"),
     DefStep("def", "state", "g") >>

\* a closure registering the callbacks that call back into the runtime
ReentryBody ==
  << DefStep("def", "reenter", "reenter"),
     DefStep("def", "nested", "nested") >>

ClosureNames == {"CounterBody", "AttrBody", "SingletonBody", "HelloBody", "ReentryBody"}

Closure(id) ==
  CASE id = "CounterBody" -> CounterBody
    [] id = "AttrBody" -> AttrBody
    [] id = "SingletonBody" -> SingletonBody
    [] id = "HelloBody" -> HelloBody
    [] id = "ReentryBody" -> ReentryBody

\* one statement of a closure body, applied to `itself`
closure_step(H, itself, st) ==
  CASE st.op = "def" -> def(H, itself, st.name, st.callback)
    [] st.op = "def_self" -> def_self(H, itself, st.name, st.callback)
    [] st.op = "define_singleton_method" ->
         define_singleton_method(H, itself, st.name, st.callback)
    [] st.op = "attr_reader" -> attr_reader(H, itself, st.name)

\* f(self) for a closure body: its statements in order, up to the first that raises
RECURSIVE call_closure(_, _, _, _)
call_closure(H, itself, f, i) ==
  IF i > Len(f) THEN Ok(H, NoWrapper)
  ELSE LET r == closure_step(H, itself, f[i])
       IN IF r.status = "raised" THEN r ELSE call_closure(r.vm, itself, f, i + 1)

\* Object::define
define(H, self, f) ==
  LET r == call_closure(H, self, f, 1)
  IN IF r.status = "raised" THEN r ELSE Ok(r.vm, self)

(* ------------------------------------------------------------------ *)
(* Callbacks and dynamic dispatch                                      *)
(* ------------------------------------------------------------------ *)

\* Fixnum::new
Fixnum_new(n) == Wrap("Fixnum", int_to_num(n))

Returned(H, h) == [vm |-> H, value |-> h, raised |-> FALSE]
Thrown(H) == [vm |-> H, value |-> NoHandle, raised |-> TRUE]

\* counter_initialize of the Counter example
counter_initialize(H, itself) ==
  LET r == instance_variable_set(H, itself, "@state", Fixnum_new(0))
  IN Returned(r.vm, value(r.res))

\* counter_increment of the Counter example; Fixnum::to_i64 raises in the
\* runtime when @state holds no number
counter_increment(H, itself) ==
  LET state == to(instance_variable_get(H, itself, "@state").res, "Fixnum")
  IN IF ~IsFixnum(value(state)) THEN Thrown(H)
     ELSE LET r == instance_variable_set(H, itself, "@state",
                                         Fixnum_new(num_to_int(value(state)) + 1))
          IN Returned(r.vm, value(r.res))

\* counter_state of the Counter example
counter_state(H, itself) ==
  Returned(H, value(to(instance_variable_get(H, itself, "@state").res, "Fixnum")))

\* the native function behind a callback that sends nothing, run by the
\* dispatcher with the receiver as `itself`
leaf_callback(H, callback, name, h, argc, argv) ==
  CASE callback = "f" -> Returned(H, value(Fixnum_new(1)))
    [] callback = "g" -> Returned(H, value(Fixnum_new(2)))
    [] callback = "counter_initialize" -> counter_initialize(H, Wrap("Counter", h))
    [] callback = "counter_increment" -> counter_increment(H, Wrap("Counter", h))
    [] callback = "counter_state" -> counter_state(H, Wrap("Counter", h))
    [] callback = "attr_reader" ->
         Returned(H, class_instance_variable_get(H, h, "@" \o name))
    [] callback = "rb_ary_push" -> Returned(H, h)

\* what Object::send makes of the outcome of the dispatch
send_result(result) ==
  IF result.raised THEN Raised(result.vm, "send")
  ELSE Ok(result.vm, AnyObject_from(result.value))

\* what a callback returns to the dispatcher after its last call: an exception
\* raised by one of its calls has unwound it
callback_result(r, result) ==
  IF r.status = "raised" THEN Thrown(r.vm) ELSE Returned(r.vm, value(result))

\* Object::send called by the callback reenter: the methods it sends are
\* callbacks that send nothing
send_from_reenter(H, self, method, arguments) ==
  send_result(IF method_entry(H, value(self), method) = NoCallback THEN Thrown(H)
              ELSE leaf_callback(H, method_entry(H, value(self), method), method,
                                 value(self), Len(arguments), arguments))

\* a callback that calls back into the runtime before it returns: it sets
\* @state to 0, defines increment! on the class of the receiver, sends it,
\* defines a singleton method, sends increment! again, converts what that
\* send returned and stores it in @modified; it returns Fixnum 0.  Each call
\* is complete before the next starts (r is the outcome of the call before),
\* and an exception raised by one unwinds the callback.
reenter_1(H, itself) == instance_variable_set(H, itself, "@state", Fixnum_new(0))

reenter_2(itself, r) ==
  IF r.status = "raised" THEN r
  ELSE define_method(r.vm, class(r.vm, itself).res, "increment!", "counter_increment")

reenter_3(itself, r) ==
  IF r.status = "raised" THEN r ELSE send_from_reenter(r.vm, itself, "increment!", <<>>)

reenter_4(itself, r) ==
  IF r.status = "raised" THEN r ELSE define_singleton_method(r.vm, itself, "m", "g")

reenter_5(itself, r) ==
  IF r.status = "raised" THEN r ELSE send_from_reenter(r.vm, itself, "increment!", <<>>)

reenter_6(itself, r) ==
  IF r.status = "raised" THEN r
  ELSE instance_variable_set(r.vm, itself, "@modified", to(r.res, "Fixnum"))

reenter(H, itself) ==
  callback_result(
    reenter_6(itself, reenter_5(itself, reenter_4(itself, reenter_3(itself,
      reenter_2(itself, reenter_1(H, itself)))))),
    Fixnum_new(0))

\* Object::send called by the callback nested: the methods it sends are
\* reenter and the callbacks that send nothing
send_from_nested(H, self, method, arguments) ==
  send_result(IF method_entry(H, value(self), method) = NoCallback THEN Thrown(H)
              ELSE IF method_entry(H, value(self), method) = "reenter"
              THEN reenter(H, AnyObject_from(value(self)))
              ELSE leaf_callback(H, method_entry(H, value(self), method), method,
                                 value(self), Len(arguments), arguments))

\* a callback that sends reenter to the receiver and returns Fixnum 1
nested(H, itself) ==
  callback_result(send_from_nested(H, itself, "reenter", <<>>), Fixnum_new(1))

\* the native function behind a registered callback, run by the dispatcher with
\* the receiver as `itself`
run_callback(H, callback, name, h, argc, argv) ==
  CASE callback = "reenter" -> reenter(H, AnyObject_from(h))
    [] callback = "nested" -> nested(H, AnyObject_from(h))
    [] OTHER -> leaf_callback(H, callback, name, h, argc, argv)

\* binding::util::call_method: the runtime raises NoMethodError when the
\* receiver has no such method
call_method(H, h, name, argc, argv) ==
  LET callback == method_entry(H, h, name)
  IN IF callback = NoCallback THEN Thrown(H)
     ELSE run_callback(H, callback, name, h, argc, argv)

\* util::create_arguments
create_arguments(arguments) ==
  [argc |-> Len(arguments), argv |-> [i \in 1..Len(arguments) |-> value(arguments[i])]]

\* send returning with the runtime as it was before the callback ran
send_discarding_effects(H, self, method, arguments) ==
  LET a == create_arguments(arguments)
      result == call_method(H, value(self), method, a.argc, a.argv)
  IN IF result.raised THEN Raised(H, "send")
     ELSE Ok(H, AnyObject_from(result.value))

\* send dispatching on the class of the receiver
send_to_class(H, self, method, arguments) ==
  LET a == create_arguments(arguments)
      result == call_method(H, class_object_class(H, value(self)), method, a.argc, a.argv)
  IN IF result.raised THEN Raised(result.vm, "send")
     ELSE Ok(result.vm, AnyObject_from(result.value))

\* Object::send
send(H, self, method, arguments) ==
  LET a == create_arguments(arguments)
      result == call_method(H, value(self), method, a.argc, a.argv)
  IN IF result.raised THEN Raised(result.vm, "send")
     ELSE Ok(result.vm, AnyObject_from(result.value))

\* Class::new_instance: allocates an instance of the class and runs its
\* initialize, when it has one
new_instance(H, self, arguments) ==
  IF Value_ty(H, value(self)) # "Class" THEN Raised(H, "new_instance")
  ELSE LET h == HeapAddr(Cardinality(DOMAIN H.heap))
           kind == IF value(self) = ArrayClass THEN "Array"
                   ELSE IF value(self) = StringClass THEN "RString"
                   ELSE "Object"
           H1 == [H EXCEPT !.heap = Put(H.heap, h, [klass |-> value(self), ty |-> kind])]
           a == create_arguments(arguments)
       IN IF class_respond_to(H1, h, "initialize")
          THEN LET r == call_method(H1, h, "initialize", a.argc, a.argv)
               IN IF r.raised THEN Raised(r.vm, "new_instance")
                  ELSE Ok(r.vm, AnyObject_from(h))
          ELSE Ok(H1, AnyObject_from(h))

(* ------------------------------------------------------------------ *)
(* State                                                               *)
(* ------------------------------------------------------------------ *)
\* vm    the runtime: heap, singleton classes, method tables, instance variables
\* last  the latest call native code made: operation, receiver, inputs, outcome
\* fuel  how many more calls of native code that change the runtime (other
\*       than through a callback) this run completes
\* held  the wrappers native code constructed and keeps
\* wrote per class (or singleton class) and name, the callbacks the completed
\*       defining calls passed for it, oldest first
\* incs  per object that new_instance initialized with counter_initialize, the
\*       sends of increment! to it that returned, for as long as native code
\*       did not set its @state

Call(op, recv, name, arg, T, out) ==
  [op |-> op, recv |-> recv, name |-> name, arg |-> arg, T |-> T,
   status |-> out.status, res |-> out.res, flag |-> out.flag, text |-> out.text]

BootVm ==
  [heap |-> BootHeap,
   single |-> EmptyFn,
   methods |-> (<<ArrayClass, "push">> :> "rb_ary_push"),
   ivars |-> EmptyFn]

\* the wrappers native code constructs in the normal way
Constructed ==
  {Fixnum_new(n) : n \in 0..MaxFixnum}
    \cup {Wrap("NilClass", Qnil), Wrap("RString", string1),
          Wrap("Array", array1), Wrap("Array", array2),
          Class_from(ArrayClass), Class_from(CounterClass)}

InitWith(wrappers, budget) ==
  /\ vm = BootVm
  /\ last = Call("init", NoWrapper, "", NoWrapper, "", Ok(BootVm, NoWrapper))
  /\ fuel = budget
  /\ incs = EmptyFn
  /\ held = wrappers
  /\ wrote = EmptyFn

\* the operations of the trait, over a string and its class
Init == InitWith({Wrap("RString", string1), Class_from(StringClass)}, MaxOps)

\* the wrapper the latest call returned, if any
Chained == IF last.status = "ok" /\ last.res # NoWrapper THEN {last.res} ELSE {}

\* the wrappers native code queries and converts: those it holds, and the one
\* the latest call returned
Receivers == held \cup Chained

\* the wrappers native code defines methods on: those it holds, and the class
\* the latest call returned
Definers == held \cup {w \in Chained : w.ty = "Class"}

\* the values native code stores in instance variables
Storable == {Fixnum_new(0), Wrap("RString", string1)}

InBounds(H) ==
  \A k \in DOMAIN H.ivars : IsFixnum(H.ivars[k]) => H.ivars[k] <= int_to_num(MaxFixnum)

Done(op, recv, name, arg, T, out) ==
  /\ InBounds(out.vm)
  /\ vm' = out.vm
  /\ last' = Call(op, recv, name, arg, T, out)

Counted(out) ==
  /\ fuel > 0
  /\ fuel' = IF out.status = "ok" THEN fuel - 1 ELSE fuel

\* the class a defining call is aimed at: the receiver for an instance method,
\* the receiver's singleton class for a singleton method
Target(H, self, op) ==
  IF op \in {"define_method", "def", "attr_reader"} THEN value(self)
  ELSE H.single[value(self)]

Noted(W, k, callback) ==
  Put(W, k, IF k \in DOMAIN W THEN Append(W[k], callback) ELSE <<callback>>)

RECURSIVE NotedAll(_, _, _, _, _)
NotedAll(W, H, self, f, i) ==
  IF i > Len(f) THEN W
  ELSE NotedAll(Noted(W, <<Target(H, self, f[i].op), f[i].name>>, f[i].callback),
                H, self, f, i + 1)

Without(f, k) == [x \in DOMAIN f \ {k} |-> f[x]]

(* ------------------------------------------------------------------ *)
(* Actions: one per method of the trait.  The queries and conversions  *)
(* take the set of wrappers they are called on, define the closures it *)
(* is called with, send and respond_to the method names they pass.     *)
(* ------------------------------------------------------------------ *)

Class(R) ==
  \E w \in R :
    /\ Done("class", w, "", NoWrapper, "", class(vm, w))
    /\ UNCHANGED <<fuel, incs, held, wrote>>

SingletonClass ==
  \E w \in held :
    LET out == singleton_class(vm, w)
    IN /\ Done("singleton_class", w, "", NoWrapper, "", out)
       /\ IF out.vm = vm THEN UNCHANGED fuel ELSE Counted(out)
       /\ UNCHANGED <<incs, held, wrote>>

Define(C) ==
  \E w \in Definers, id \in C :
    LET out == define(vm, w, Closure(id))
    IN /\ Done("define", w, "", NoWrapper, id, out)
       /\ Counted(out)
       /\ wrote' = IF out.status = "ok"
                   THEN NotedAll(wrote, out.vm, w, Closure(id), 1)
                   ELSE wrote
       /\ UNCHANGED <<incs, held>>

DefineMethod(N) ==
  \E w \in Definers, name \in N, callback \in DefCallbacks :
    LET out == define_method(vm, w, name, callback)
    IN /\ Done("define_method", w, name, NoWrapper, callback, out)
       /\ Counted(out)
       /\ wrote' = IF out.status = "ok"
                   THEN Noted(wrote, <<Target(out.vm, w, "define_method"), name>>, callback)
                   ELSE wrote
       /\ UNCHANGED <<incs, held>>

DefineSingletonMethod(N) ==
  \E w \in Definers, name \in N, callback \in DefCallbacks :
    LET out == define_singleton_method(vm, w, name, callback)
    IN /\ Done("define_singleton_method", w, name, NoWrapper, callback, out)
       /\ Counted(out)
       /\ wrote' = IF out.status = "ok"
                   THEN Noted(wrote, <<Target(out.vm, w, "define_singleton_method"), name>>, callback)
                   ELSE wrote
       /\ UNCHANGED <<incs, held>>

Def ==
  \E w \in Definers, name \in {"m"}, callback \in DefCallbacks :
    LET out == def(vm, w, name, callback)
    IN /\ Done("def", w, name, NoWrapper, callback, out)
       /\ Counted(out)
       /\ wrote' = IF out.status = "ok"
                   THEN Noted(wrote, <<Target(out.vm, w, "def"), name>>, callback)
                   ELSE wrote
       /\ UNCHANGED <<incs, held>>

DefSelf ==
  \E w \in Definers, name \in {"m"}, callback \in DefCallbacks :
    LET out == def_self(vm, w, name, callback)
    IN /\ Done("def_self", w, name, NoWrapper, callback, out)
       /\ Counted(out)
       /\ wrote' = IF out.status = "ok"
                   THEN Noted(wrote, <<Target(out.vm, w, "def_self"), name>>, callback)
                   ELSE wrote
       /\ UNCHANGED <<incs, held>>

NewInstance ==
  \E w \in held :
    LET out == new_instance(vm, w, <<>>)
        k == <<value(w), "initialize">>
        ran == IF out.status = "ok" /\ k \in DOMAIN wrote
               THEN wrote[k][Len(wrote[k])] ELSE NoCallback
    IN /\ Done("new_instance", w, "", NoWrapper, "", out)
       /\ Counted(out)
       /\ incs' = IF ran = "counter_initialize" THEN Put(incs, value(out.res), 0) ELSE incs
       /\ held' = IF out.status = "ok" THEN held \cup {out.res} ELSE held
       /\ UNCHANGED wrote

Send(N) ==
  \E w \in held, method \in N :
    LET out == send(vm, w, method, <<>>)
        h == value(w)
    IN /\ Done("send", w, method, NoWrapper, "", out)
       /\ incs' = IF out.status = "ok" /\ method = "increment!" /\ h \in DOMAIN incs
                  THEN Put(incs, h, incs[h] + 1)
                  ELSE incs
       /\ UNCHANGED <<fuel, held, wrote>>

RespondTo(N) ==
  \E w \in held, method \in N :
    /\ Done("respond_to", w, method, NoWrapper, "", respond_to(vm, w, method))
    /\ UNCHANGED <<fuel, incs, held, wrote>>

IsNil(R) ==
  \E w \in R :
    /\ Done("is_nil", w, "", NoWrapper, "", is_nil(vm, w))
    /\ UNCHANGED <<fuel, incs, held, wrote>>

ToAnyObject(R) ==
  \E w \in R :
    /\ Done("to_any_object", w, "", NoWrapper, "", to_any_object(vm, w))
    /\ UNCHANGED <<fuel, incs, held, wrote>>

InstanceVariableGet ==
  \E w \in held, variable \in IvarNames :
    /\ Done("instance_variable_get", w, variable, NoWrapper, "",
            instance_variable_get(vm, w, variable))
    /\ UNCHANGED <<fuel, incs, held, wrote>>

InstanceVariableSet ==
  \E w \in held, variable \in IvarNames, v \in Storable :
    LET out == instance_variable_set(vm, w, variable, v)
    IN /\ Done("instance_variable_set", w, variable, v, "", out)
       /\ Counted(out)
       /\ incs' = IF variable = "@state" THEN Without(incs, value(w)) ELSE incs
       /\ UNCHANGED <<held, wrote>>

To(R) ==
  \E w \in R, T \in WrapperTypes :
    /\ Done("to", w, "", NoWrapper, T, Ok(vm, to(w, T)))
    /\ UNCHANGED <<fuel, incs, held, wrote>>

TryConvertTo(R) ==
  \E w \in R, T \in VerifiedTypes :
    /\ Done("try_convert_to", w, "", NoWrapper, T, try_convert_to(vm, w, T))
    /\ UNCHANGED <<fuel, incs, held, wrote>>

Ty(R) ==
  \E w \in R :
    /\ Done("ty", w, "", NoWrapper, "", ty(vm, w))
    /\ UNCHANGED <<fuel, incs, held, wrote>>

Next ==
  \/ Class(held)
  \/ SingletonClass
  \/ Define({"HelloBody"})
  \/ DefineMethod({"m"})
  \/ DefineSingletonMethod({"m"})
  \/ Def
  \/ DefSelf
  \/ Send(DefNames)
  \/ RespondTo(DefNames)
  \/ IsNil(held)
  \/ ToAnyObject(held)
  \/ InstanceVariableGet
  \/ InstanceVariableSet
  \/ To(held)
  \/ TryConvertTo(held)
  \/ Ty(held)

Spec == Init /\ [][Next]_vars

\* conversions and queries over every normally constructed wrapper
InitConv == InitWith(Constructed, 0)

NextConv ==
  \/ Class(Receivers)
  \/ IsNil(Receivers)
  \/ ToAnyObject(Receivers)
  \/ To(Receivers)
  \/ TryConvertTo(Receivers)
  \/ Ty(Receivers)

SpecConv == InitConv /\ [][NextConv]_vars

\* method definition and dispatch over an array, its class and a number
InitDefine ==
  InitWith({Wrap("Array", array1), Class_from(ArrayClass), Fixnum_new(1)}, MaxDefs)

NextDefine ==
  \/ SingletonClass
  \/ Define({"AttrBody", "SingletonBody", "HelloBody"})
  \/ DefineMethod(DefNames)
  \/ DefineSingletonMethod(DefNames)
  \/ Def
  \/ DefSelf
  \/ Send(MethodNames \ {"increment!"})
  \/ RespondTo(MethodNames \ {"increment!"})

SpecDefine == InitDefine /\ [][NextDefine]_vars

\* the singleton classes of two arrays
InitSingleton == InitWith({Wrap("Array", array1), Wrap("Array", array2)}, MaxDefs)

NextSingleton ==
  \/ Class(held)
  \/ SingletonClass
  \/ Define({"AttrBody"})
  \/ DefineMethod(DefNames)
  \/ DefineSingletonMethod(DefNames)
  \/ RespondTo(MethodNames \ {"increment!"})

SpecSingleton == InitSingleton /\ [][NextSingleton]_vars

\* instance variables of a string, an array and a class
InitIvar ==
  InitWith({Wrap("RString", string1), Wrap("Array", array1), Class_from(StringClass)},
           MaxSets)

NextIvar ==
  \/ InstanceVariableGet
  \/ InstanceVariableSet

SpecIvar == InitIvar /\ [][NextIvar]_vars

\* the Counter example
InitCounter == InitWith({Class_from(CounterClass)}, MaxCounterOps)

NextCounter ==
  \/ Define({"CounterBody"})
  \/ Def
  \/ NewInstance
  \/ Send({"increment!", "state", "m"})
  \/ InstanceVariableGet
  \/ InstanceVariableSet

SpecCounter == InitCounter /\ [][NextCounter]_vars

\* callbacks that call back into the runtime, on an array and its class
InitReentry == InitWith({Wrap("Array", array1), Class_from(ArrayClass)}, MaxReentryOps)

NextReentry ==
  \/ Define({"ReentryBody"})
  \/ DefineMethod({"m", "increment!"})
  \/ DefineSingletonMethod({"m"})
  \/ Send({"reenter", "nested", "increment!", "m"})
  \/ InstanceVariableGet
  \/ InstanceVariableSet

SpecReentry == InitReentry /\ [][NextReentry]_vars

(* ------------------------------------------------------------------ *)
(* Properties                                                          *)
(* ------------------------------------------------------------------ *)

\* the class of the runtime a wrapper type stands for
ClassOfType(T) ==
  CASE T = "Fixnum" -> FixnumClass
    [] T = "RString" -> StringClass
    [] T = "Array" -> ArrayClass
    [] OTHER -> NoHandle

\* C1: try_convert_to::<T>() on a wrapper of the handle h returns Ok exactly
\* when the runtime class of h is T's class, whatever the static type of the
\* receiver, and the wrapper it returns on Ok holds h.
C1_TryConvertChecksRuntimeClass ==
  last.op = "try_convert_to" =>
    /\ last.status \in {"ok", "TypeError"}
    /\ (last.status = "ok") <=>
         (class_object_class(vm, value(last.recv)) = ClassOfType(last.T))
    /\ last.status = "ok" => last.res = Wrap(last.T, value(last.recv))

\* a conversion that succeeded from a receiver of another static type
C1_Witness ==
  /\ last.op = "try_convert_to"
  /\ last.status = "ok"
  /\ last.recv.ty \notin {last.T, "AnyObject"}

\* C2: try_convert_to::<T>() on a handle whose runtime class is not T's returns
\* the error value TypeError with T's error message ("Error converting to
\* Fixnum" for a string asked for as Fixnum); it raises nothing and leaves the
\* runtime as it was.
C2_FailedConversion ==
  /\ [](last.op = "try_convert_to"
          /\ class_object_class(vm, value(last.recv)) # ClassOfType(last.T)
        => /\ last.status = "TypeError"
           /\ last.text = error_message(last.T)
           /\ last.T = "Fixnum" => last.text = "Error converting to Fixnum")
  /\ [][last'.op = "try_convert_to" => vm' = vm]_vars

\* the string asked for as a Fixnum, through a wrapper typed RString
C2_Witness ==
  /\ last.op = "try_convert_to"
  /\ last.recv = Wrap("RString", string1)
  /\ last.T = "Fixnum"
  /\ last.status = "TypeError"

\* C3: for a normally constructed wrapper w of type T, w.to_any_object()
\* followed by try_convert_to::<T>() on the result returns Ok with a wrapper
\* holding the handle of w.
C3_RoundTrip ==
  [][(/\ last.op = "to_any_object"
      /\ last.recv \in Constructed
      /\ last'.op = "try_convert_to"
      /\ last'.recv = last.res
      /\ last'.T = last.recv.ty)
     => (last'.status = "ok" /\ last'.res = last.recv)]_vars

\* a generic wrapper of an array converted back to Array
C3_Witness ==
  /\ last.op = "try_convert_to"
  /\ last.recv = AnyObject_from(array1)
  /\ last.T = "Array"
  /\ last.status = "ok"
  /\ last.res = Wrap("Array", array1)

(* ---- method definition and dispatch ---- *)

Range(f) == {f[x] : x \in DOMAIN f}

DefinesInstanceMethod(op) == op \in {"define_method", "def"}
DefinesSingletonMethod(op) == op \in {"define_singleton_method", "def_self"}

\* h is an instance of the class K, or the object whose singleton class K is
InstanceOf(H, h, K) ==
  \/ class_object_class(H, h) = K
  \/ h \in DOMAIN H.single /\ H.single[h] = K

\* the callback the completed defining calls leave in force for a receiver
\* and a name: the latest one passed for its singleton class, else the latest
\* one passed for its class
Expected(h, name) ==
  LET s == IF h \in DOMAIN vm.single THEN vm.single[h] ELSE NoHandle
      k == class_object_class(vm, h)
  IN IF <<s, name>> \in DOMAIN wrote THEN wrote[<<s, name>>][Len(wrote[<<s, name>>])]
     ELSE IF <<k, name>> \in DOMAIN wrote THEN wrote[<<k, name>>][Len(wrote[<<k, name>>])]
     ELSE NoCallback

\* the value the callbacks f and g return
Returns(callback) == IF callback = "f" THEN Fixnum_new(1) ELSE Fixnum_new(2)

\* C4: respond_to(name) is true right after define_method(name, _) on the
\* class of the receiver (or on its singleton class) and right after
\* define_singleton_method(name, _) on the receiver; it is false for a name
\* no defining call registered anywhere, unless the name is built in.
C4_RespondToAfterDefine ==
  /\ [](last.op = "respond_to"
          /\ (\A k \in DOMAIN wrote : k[2] # last.name)
          /\ <<class_object_class(vm, value(last.recv)), last.name>> \notin DOMAIN BootVm.methods
        => ~last.flag)
  /\ [][(/\ last.status = "ok"
          /\ last'.op = "respond_to"
          /\ last'.name = last.name
          /\ \/ /\ DefinesInstanceMethod(last.op)
                /\ InstanceOf(vm, value(last'.recv), value(last.recv))
             \/ /\ DefinesSingletonMethod(last.op)
                /\ value(last'.recv) = value(last.recv))
         => last'.flag]_vars

\* respond_to answered true for a method defined on the object alone
C4_Witness ==
  /\ last.op = "respond_to"
  /\ last.recv = Wrap("Array", array1)
  /\ last.name = "m"
  /\ last.flag
  /\ <<ArrayClass, "m">> \notin DOMAIN wrote
  /\ array1 \in DOMAIN vm.single
  /\ <<vm.single[array1], "m">> \in DOMAIN wrote

\* C5: a name registered again keeps the callback registered last: a send of
\* the name runs the callback the latest defining call passed for it (f
\* returns Fixnum 1, g returns Fixnum 2), never an earlier one.
C5_LastWriteWins ==
  last.op = "send" /\ Expected(value(last.recv), last.name) \in DefCallbacks =>
    /\ last.status = "ok"
    /\ last.res = AnyObject_from(value(Returns(Expected(value(last.recv), last.name))))

\* m registered with f, then with g, then sent: g ran
C5_Witness ==
  /\ last.op = "send"
  /\ last.recv = Wrap("Array", array1)
  /\ last.name = "m"
  /\ <<ArrayClass, "m">> \in DOMAIN wrote
  /\ wrote[<<ArrayClass, "m">>] = <<"f", "g">>
  /\ last.res = AnyObject_from(value(Fixnum_new(2)))

\* C6: no operation removes a registration: a (class, name) entry of the
\* method tables is still there after every step, whatever the operation.
C6_NeverUnregistered ==
  [][\A k \in DOMAIN vm.methods : k \in DOMAIN vm'.methods]_vars

\* a method registered by native code, and an instance variable set after that
C6_Witness ==
  /\ \E k \in DOMAIN wrote : k \in DOMAIN vm.methods
  /\ last.op = "instance_variable_set"
  /\ last.status = "ok"

\* C7 as stated: define_method registers the callback on the class of the
\* receiver.
C7_Original ==
  DefinesInstanceMethod(last.op) =>
    LET k == <<class_object_class(vm, value(last.recv)), last.name>>
    IN k \in DOMAIN vm.methods /\ vm.methods[k] = last.T

\* C7: define_method on a receiver that is a class (or a singleton class)
\* registers the callback under the name on the receiver itself, for its
\* instances to dispatch to, and not on the class of the receiver;
\* define_singleton_method, when the runtime accepts the receiver, registers
\* the callback on the singleton class of the receiver.
C7_DefineTargets ==
  /\ (DefinesInstanceMethod(last.op) /\ Value_ty(vm, value(last.recv)) = "Class" =>
        /\ last.status = "ok"
        /\ <<value(last.recv), last.name>> \in DOMAIN vm.methods
        /\ vm.methods[<<value(last.recv), last.name>>] = last.T
        /\ <<class_object_class(vm, value(last.recv)), last.name>> \notin DOMAIN wrote
              => <<class_object_class(vm, value(last.recv)), last.name>> \notin DOMAIN vm.methods)
  /\ (DefinesSingletonMethod(last.op) /\ last.status = "ok" =>
        /\ value(last.recv) \in DOMAIN vm.single
        /\ <<vm.single[value(last.recv)], last.name>> \in DOMAIN vm.methods
        /\ vm.methods[<<vm.single[value(last.recv)], last.name>>] = last.T)

\* define_method on the class Array registered the method on Array
C7_Witness ==
  /\ last.op = "define_method"
  /\ last.recv = Class_from(ArrayClass)
  /\ last.status = "ok"
  /\ vm.methods[<<ArrayClass, last.name>>] = last.T

\* the object a step defines singleton methods for, NoHandle when it defines
\* none or not for one object alone
SingletonOwner(H, c) ==
  IF c.status # "ok" THEN NoHandle
  ELSE IF DefinesSingletonMethod(c.op) THEN value(c.recv)
  ELSE IF (DefinesInstanceMethod(c.op) \/ (c.op = "define" /\ c.T = "AttrBody"))
          /\ value(c.recv) \in Range(H.single)
  THEN CHOOSE h \in DOMAIN H.single : H.single[h] = value(c.recv)
  ELSE NoHandle

\* the name such a step defines
DefinedName(c) == IF c.op = "define" THEN AttrBody[1].name ELSE c.name

\* C9: singleton classes are per object: singleton_class() of an object is
\* none of the singleton classes of the other objects and not its class, two
\* objects of one class have the same class(), and a method or attribute
\* reader registered on the singleton class of one object makes that object
\* respond to the name and changes what no other object responds to.
C9_SingletonPerObject ==
  /\ [](last.op = "singleton_class" =>
          /\ last.status = "ok"
          /\ value(last.res) # class_object_class(vm, value(last.recv))
          /\ \A w \in held :
               value(w) # value(last.recv) =>
                 /\ singleton_class(vm, w).res # last.res
                 /\ class_object_class(vm, value(w)) = class_object_class(vm, value(last.recv))
                      => class(vm, w).res = class(vm, last.recv).res)
  /\ [][LET h == SingletonOwner(vm, last')
        IN h # NoHandle =>
             /\ \A w \in held : value(w) = h => respond_to(vm', w, DefinedName(last')).flag
             /\ \A w \in held, n \in MethodNames :
                  value(w) # h => respond_to(vm', w, n).flag = respond_to(vm, w, n).flag]_vars

\* an attribute reader defined on the singleton class of one array, and the
\* other array not responding to it
C9_Witness ==
  /\ last.op = "respond_to"
  /\ last.recv = Wrap("Array", array2)
  /\ last.name = "modified"
  /\ ~last.flag
  /\ array1 \in DOMAIN vm.single
  /\ <<vm.single[array1], "modified">> \in DOMAIN vm.methods
  /\ respond_to(vm, Wrap("Array", array1), "modified").flag

(* ---- instance variables and the Counter ---- *)

\* C8: instance_variable_set(k, v) returns a wrapper of v, and
\* instance_variable_get(k) on the same object right after it returns a
\* wrapper holding the handle of v.
C8_SetThenGet ==
  /\ [](last.op = "instance_variable_set" =>
          last.status = "ok" /\ last.res = AnyObject_from(value(last.arg)))
  /\ [][(/\ last.op = "instance_variable_set"
          /\ last'.op = "instance_variable_get"
          /\ value(last'.recv) = value(last.recv)
          /\ last'.name = last.name)
         => (last'.status = "ok" /\ value(last'.res) = value(last.arg))]_vars

\* a slot of the string read back after it was set
C8_Witness ==
  /\ last.op = "instance_variable_get"
  /\ last.recv = Wrap("RString", string1)
  /\ <<string1, last.name>> \in DOMAIN vm.ivars
  /\ value(last.res) = vm.ivars[<<string1, last.name>>]
  /\ value(last.res) # Qnil

\* C10: send runs the callback in force for the receiver, on the receiver, and
\* returns its result as a generic wrapper, and what a callback stores in an
\* instance variable is there for later sends: a Counter that initialize set
\* to 0 and increment! was sent to k times answers send("state") with Fixnum k.
C10_CounterState ==
  last.op = "send" /\ last.name = "state"
    /\ value(last.recv) \in DOMAIN incs
    /\ Expected(value(last.recv), "state") = "counter_state"
  => /\ last.status = "ok"
     /\ last.res = AnyObject_from(value(Fixnum_new(incs[value(last.recv)])))

\* a Counter answering 2 after two sends of increment!
C10_Witness ==
  /\ last.op = "send"
  /\ last.name = "state"
  /\ value(last.recv) \in DOMAIN incs
  /\ incs[value(last.recv)] = 2
  /\ last.res = AnyObject_from(value(Fixnum_new(2)))

(* ---- nil ---- *)

\* C11: is_nil() answers true exactly when the handle is nil, the one instance
\* of NilClass, and false for every other constructed handle (numbers,
\* strings, arrays, classes), through whatever wrapper type the handle is
\* viewed.
C11_IsNilExactlyNil ==
  last.op = "is_nil" =>
    /\ last.status = "ok"
    /\ last.flag <=> class_object_class(vm, value(last.recv)) = NilClassClass
    /\ \A T \in WrapperTypes : is_nil(vm, to(last.recv, T)).flag = last.flag

\* nil recognised through a wrapper of another type
C11_Witness ==
  /\ last.op = "is_nil"
  /\ last.flag
  /\ last.recv.ty \in VerifiedTypes

(* ---- reentry ---- *)

\* the runtime after the calls of reenter on the object h, issued one
\* after the other from the runtime H: @state set to 0 and incremented twice,
\* increment! on the class of h, the singleton method m on h, the result of
\* the second increment! in @modified
AfterReenter(H, h) ==
  LET a == class_singleton_class(H, h)
  IN [heap |-> a.vm.heap,
      single |-> a.vm.single,
      methods |-> Put(Put(H.methods, <<class_object_class(H, h), "increment!">>,
                          "counter_increment"),
                      <<a.value, "m">>, "g"),
      ivars |-> Put(Put(H.ivars, <<h, "@state">>, int_to_num(2)),
                    <<h, "@modified">>, int_to_num(2))]

\* C12: a callback running inside send calls send, define_method,
\* define_singleton_method, instance_variable_set and a conversion before it
\* returns; each nested call is complete before the callback goes on, the
\* method tables and instance variables afterwards are those of the same
\* calls issued in that order and nothing else has changed, and the outer send
\* returns the result of its own callback (Fixnum 0 for reenter, Fixnum 1 for
\* nested), not that of a nested send.
C12_ReentryKeepsOrder ==
  [][(last'.op = "send" /\ last'.name \in {"reenter", "nested"} /\ last'.status = "ok")
     => /\ vm' = AfterReenter(vm, value(last'.recv))
        /\ last'.res = AnyObject_from(value(Fixnum_new(IF last'.name = "reenter" THEN 0 ELSE 1)))]_vars

\* a send whose callback sent reenter, which replaced the increment! that
\* native code had registered before
C12_Witness ==
  /\ last.op = "send"
  /\ last.name = "nested"
  /\ last.status = "ok"
  /\ <<ArrayClass, "increment!">> \in DOMAIN wrote
  /\ vm.methods[<<ArrayClass, "increment!">>] = "counter_increment"
  /\ vm.ivars[<<array1, "@state">>] = int_to_num(2)

(* ---- unchecked conversion ---- *)

\* the runtime kind a wrapper type stands for
KindOfType(T) ==
  CASE T = "Fixnum" -> "Fixnum"
    [] T = "RString" -> "RString"
    [] T = "Array" -> "Array"
    [] T = "Class" -> "Class"
    [] T = "NilClass" -> "Nil"
    [] OTHER -> "none"

\* a wrapper whose declared type is not the runtime kind of its handle
Mistyped(H, w) ==
  /\ w # NoWrapper
  /\ w.ty # "AnyObject"
  /\ Value_ty(H, value(w)) # KindOfType(w.ty)

\* C13: to::<T>() returns, for every handle and every wrapper type T, a
\* wrapper of type T holding the handle of the receiver, and never an error,
\* whether or not the runtime class of the handle is T's; a wrapper whose
\* declared type differs from the runtime class of its handle is returned by
\* to::<T>() only, never by try_convert_to::<T>() or another operation.
C13_UncheckedTo ==
  /\ last.op = "to" =>
        /\ last.status = "ok"
        /\ last.res = Wrap(last.T, value(last.recv))
  /\ last.status = "ok" /\ Mistyped(vm, last.res) => last.op = "to"
  /\ last.op = "try_convert_to" /\ last.status = "ok" =>
        /\ ~Mistyped(vm, last.res)
        /\ last.res.ty = last.T

\* a string handed back as a Fixnum wrapper
C13_Witness ==
  /\ last.op = "to"
  /\ last.status = "ok"
  /\ last.res = Wrap("Fixnum", string1)
  /\ Mistyped(vm, last.res)

====
